---- MODULE Spec2Model ----
(***************************************************************************)
(* WatermarkNode (src/__init__.py): one operation, apply_watermark, and    *)
(* its two helpers _calculate_position and _ensure_watermark_fits.         *)
(*                                                                         *)
(* Two specifications share this module.                                   *)
(*   SpecPlace  calls the two helpers directly, on arbitrary sizes (the    *)
(*              watermark may be larger than the base image).              *)
(*   Spec       runs apply_watermark statement by statement, on images     *)
(*              whose pixels are kept.                                     *)
(*                                                                         *)
(* Numbers.  The code computes with Python floats.  Every float the model  *)
(* feeds to the code is a dyadic rational <<num, den>> (den a power of     *)
(* two) and every ratio width / height it forms has a power of two as its  *)
(* reduced denominator, so each product and quotient below is either exact *)
(* in binary floating point or further from an integer than the rounding   *)
(* error: int() of the float is the truncation of the exact value.         *)
(* Tensor values are kept in units of 1 / (255 * 256).                     *)
(***************************************************************************)
EXTENDS Integers, Sequences, FiniteSets, TLC

\* ------------------------------------------------------------- bounds
MaxDim == 2       \* SpecPlace: base sides 1..MaxDim, watermark sides 1..MaxDim+1
MaxMargin == 1    \* margins 0..MaxMargin and DefaultMargin
MaxOffset == 1    \* offsets -MaxOffset..MaxOffset
MaxBase == 3      \* Spec: base image sides 1..MaxBase
MaxNat == 3       \* Spec: natural watermark sides 1..MaxNat

\* ---------------------------------------------------------- constants
DefaultMargin == 20   \* margin_x / margin_y default
ByteMax == 255        \* 8-bit channel maximum

Anchors ==
    {"top_left", "top_center", "top_right",
     "center_left", "center", "center_right",
     "bottom_left", "bottom_center", "bottom_right"}

\* A name outside the nine, as a caller other than the UI may pass.
UnknownAnchor == "middle"

Min(a, b) == IF a <= b THEN a ELSE b

\* Python round(num / den) for num >= 0: to nearest, ties to even.
RoundHalfEven(num, den) ==
    LET q == num \div den
        twice == 2 * (num % den)
    IN  IF twice < den THEN q
        ELSE IF twice > den THEN q + 1
        ELSE IF q % 2 = 0 THEN q ELSE q + 1

\* Python int(num / den): truncation toward zero.
IntOf(num, den) ==
    IF num >= 0 THEN num \div den ELSE -((-num) \div den)

\* ------------------------------------------------- _calculate_position
\* The positions dict; // is floor division, as \div is.
positions(base_width, base_height, wm_width, wm_height, margin_x, margin_y) ==
    [a \in Anchors |->
        CASE a = "top_left"      -> <<margin_x, margin_y>>
          [] a = "top_center"    -> <<(base_width - wm_width) \div 2, margin_y>>
          [] a = "top_right"     -> <<base_width - wm_width - margin_x, margin_y>>
          [] a = "center_left"   -> <<margin_x, (base_height - wm_height) \div 2>>
          [] a = "center"        -> <<(base_width - wm_width) \div 2,
                                      (base_height - wm_height) \div 2>>
          [] a = "center_right"  -> <<base_width - wm_width - margin_x,
                                      (base_height - wm_height) \div 2>>
          [] a = "bottom_left"   -> <<margin_x, base_height - wm_height - margin_y>>
          [] a = "bottom_center" -> <<(base_width - wm_width) \div 2,
                                      base_height - wm_height - margin_y>>
          [] a = "bottom_right"  -> <<base_width - wm_width - margin_x,
                                      base_height - wm_height - margin_y>>]

\* Faulty variant: an unknown name falls back to the first entry.
positions_get_top_left(table, position) ==
    IF position \in DOMAIN table THEN table[position] ELSE table["top_left"]

\* positions.get(position, positions["bottom_right"])
positions_get(table, position) ==
    IF position \in DOMAIN table THEN table[position] ELSE table["bottom_right"]

calculate_position(base_width, base_height, wm_width, wm_height, position, margin_x, margin_y, offset_x, offset_y) ==
    LET base == positions_get(positions(base_width, base_height, wm_width,
                                        wm_height, margin_x, margin_y), position)
    IN  <<base[1] + offset_x, base[2] + offset_y>>

\* ----------------------------------------------- _ensure_watermark_fits
\* Faulty variant: the overflow branch forgets the watermark's own size.
fit_axis_overshoot(base, wm, pos) ==
    IF pos < 0 THEN 0
    ELSE IF pos + wm > base THEN base
    ELSE pos

\* Faulty variant: the overflow branch is one pixel short.
fit_axis_off_by_one(base, wm, pos) ==
    IF pos < 0 THEN 0
    ELSE IF pos + wm > base THEN base - wm - 1
    ELSE pos

\* Faulty variant: the overflow branch never goes below the origin.
fit_axis_never_negative(base, wm, pos) ==
    IF pos < 0 THEN 0
    ELSE IF pos + wm > base THEN (IF base - wm < 0 THEN 0 ELSE base - wm)
    ELSE pos

\* One axis of the adjustment: if pos < 0 ... elif pos + wm > base ...
fit_axis(base, wm, pos) ==
    IF pos < 0 THEN 0
    ELSE IF pos + wm > base THEN base - wm
    ELSE pos

ensure_watermark_fits(base_width, base_height, wm_width, wm_height, pos_x, pos_y) ==
    <<fit_axis(base_width, wm_width, pos_x), fit_axis(base_height, wm_height, pos_y)>>

\* ------------------------------------------------------------- state
VARIABLES
    \* SpecPlace: a direct call of the two helpers
    call,        \* the arguments
    cstep,       \* "args" -> "resolved" -> "fitted" -> "refitted"
    resolved,    \* what _calculate_position returned
    fitted,      \* what _ensure_watermark_fits returned for it
    refitted,    \* what _ensure_watermark_fits returned for its own result
    \* Spec: one invocation of apply_watermark
    image,       \* argument: the host tensor [batch, height, width, channels]
    wm_file,     \* what watermark_path names on disk
    opacity,     \* argument, <<num, den>>
    scale,       \* argument, <<num, den>>
    pc,          \* the statement about to run
    base_image,  \* local
    base_width,  \* local
    base_height, \* local
    new_width,   \* local
    new_height,  \* local
    watermark,   \* local, as bound by lines 61 and 83
    wm_pasted,   \* local watermark as bound after lines 104-110
    pos_x,       \* local
    pos_y,       \* local
    temp_img,    \* local
    result,      \* local
    ret,         \* the tensor of the returned 1-tuple
    outcome      \* which return statement ran

place_vars == <<call, cstep, resolved, fitted, refitted>>
apply_vars == <<image, wm_file, opacity, scale, pc, base_image, base_width, base_height, new_width, new_height, watermark, wm_pasted, pos_x, pos_y, temp_img, result, ret, outcome>>
vars == <<place_vars, apply_vars>>

\* ------------------------------------------------ idle values of locals
NoPx == [p \in {} |-> <<>>]
NoImage == [mode |-> "none", width |-> 0, height |-> 0, px |-> NoPx]
NoTensor == [batch |-> 0, height |-> 0, width |-> 0, channels |-> 0, data |-> <<>>]
NoFile == [status |-> "none", width |-> 0, height |-> 0]

ApplyIdle ==
    /\ image = NoTensor /\ wm_file = NoFile
    /\ opacity = <<1, 1>> /\ scale = <<1, 1>>
    /\ pc = "idle"
    /\ base_image = NoImage /\ base_width = 0 /\ base_height = 0
    /\ new_width = 0 /\ new_height = 0
    /\ watermark = NoImage /\ wm_pasted = NoImage
    /\ pos_x = 0 /\ pos_y = 0
    /\ temp_img = NoImage /\ result = NoImage
    /\ ret = NoTensor /\ outcome = "none"

NoCall == [base |-> <<0, 0>>, wm |-> <<0, 0>>, position |-> "none", margin |-> <<0, 0>>, offset |-> <<0, 0>>]

PlaceIdle ==
    /\ call = NoCall /\ cstep = "idle"
    /\ resolved = <<0, 0>> /\ fitted = <<0, 0>> /\ refitted = <<0, 0>>

\* ------------------------------------------- SpecPlace: the two helpers
\* Sizes of the two worked scenarios (1000 x 500 with a 200 x 100 watermark,
\* 100 x 100 with a 150 x 80 watermark) beside all small sizes.
ScenarioBases == {<<1000, 500>>, <<100, 100>>}
ScenarioWatermarks == {<<200, 100>>, <<150, 80>>}

BaseSizes == ((1..MaxDim) \X (1..MaxDim)) \cup ScenarioBases
WmSizes == ((1..(MaxDim + 1)) \X (1..(MaxDim + 1))) \cup ScenarioWatermarks
Margins == (0..MaxMargin) \cup {DefaultMargin}
Offsets == (-MaxOffset)..MaxOffset
AnchorArgs == Anchors \cup {UnknownAnchor}

Calls ==
    [base : BaseSizes, wm : WmSizes, position : AnchorArgs,
     margin : Margins \X Margins, offset : Offsets \X Offsets]

InitPlace ==
    /\ call \in Calls
    /\ cstep = "args"
    /\ resolved = <<0, 0>> /\ fitted = <<0, 0>> /\ refitted = <<0, 0>>
    /\ ApplyIdle

\* pos = self._calculate_position(...)
CallCalculatePosition ==
    /\ cstep = "args"
    /\ resolved' = calculate_position(call.base[1], call.base[2], call.wm[1], call.wm[2], call.position, call.margin[1], call.margin[2], call.offset[1], call.offset[2])
    /\ cstep' = "resolved"
    /\ UNCHANGED <<call, fitted, refitted, apply_vars>>

\* pos = self._ensure_watermark_fits(..., *pos)
CallEnsureFits ==
    /\ cstep = "resolved"
    /\ fitted' = ensure_watermark_fits(call.base[1], call.base[2], call.wm[1], call.wm[2], resolved[1], resolved[2])
    /\ cstep' = "fitted"
    /\ UNCHANGED <<call, resolved, refitted, apply_vars>>

\* the same call again, on the position it returned
CallEnsureFitsAgain ==
    /\ cstep = "fitted"
    /\ refitted' = ensure_watermark_fits(call.base[1], call.base[2], call.wm[1], call.wm[2], fitted[1], fitted[2])
    /\ cstep' = "refitted"
    /\ UNCHANGED <<call, resolved, fitted, apply_vars>>

NextPlace ==
    \/ CallCalculatePosition
    \/ CallEnsureFits
    \/ CallEnsureFitsAgain

SpecPlace == InitPlace /\ [][NextPlace]_vars

\* ------------------------------------------------ Spec: apply_watermark
\* The tensor value 1.0.
Unit == ByteMax * (ByteMax + 1)

Coords(w, h) == (0..(w - 1)) \X (0..(h - 1))

\* Input tensors: normalized values n / 256, n taken from Levels by a pattern.
Levels == <<0, 77, 200, 256>>
Seeds == {0, 1}
BatchSizes == {1, 2}
ChannelCounts == {3, 4}

InputValue(seed, b, q, c) ==
    ByteMax * Levels[((seed + b + q[1] + 2 * q[2] + c) % Len(Levels)) + 1]

Tensor(b, h, w, c, seed) ==
    [batch |-> b, height |-> h, width |-> w, channels |-> c,
     data |-> [i \in 1..b |-> [q \in Coords(w, h) |-> [k \in 1..c |-> InputValue(seed, i, q, k)]]]]

Tensors ==
    {Tensor(b, h, w, c, seed) : b \in BatchSizes, h \in 1..MaxBase, w \in 1..MaxBase, c \in ChannelCounts, seed \in Seeds}

RECURSIVE GCD(_, _)
GCD(a, b) == IF b = 0 THEN a ELSE GCD(b, a % b)

IsPow2(n) == \E k \in 0..n : 2 ^ k = n

\* Natural watermark sizes whose ratio width / height is an exact float.
NaturalSizes ==
    {n \in (1..MaxNat) \X (1..MaxNat) : IsPow2(n[2] \div GCD(n[1], n[2]))}

WmFiles ==
    {[status |-> "missing", width |-> 0, height |-> 0],
     [status |-> "undecodable", width |-> 0, height |-> 0]}
    \cup {[status |-> "ok", width |-> n[1], height |-> n[2]] : n \in NaturalSizes}

Scales == {<<1, 4>>, <<1, 2>>, <<3, 4>>, <<1, 1>>}
Opacities == {<<0, 1>>, <<1, 2>>, <<1, 1>>}

\* RGBA pixels a decoded or resampled watermark is made of.
WmPalette == << <<255, 0, 0, 255>>, <<0, 128, 255, 128>>, <<10, 20, 30, 0>> >>
WmSeeds == {0, 1, 2}

\* The position arguments apply_watermark is called with.
ApplyMargins == {0, DefaultMargin}
ApplyOffsets == {-MaxOffset, 0, MaxOffset}

WmPx(w, h, seed) ==
    [q \in Coords(w, h) |-> WmPalette[((seed + q[1] + q[2]) % Len(WmPalette)) + 1]]

Init ==
    /\ image \in Tensors
    /\ wm_file \in WmFiles
    /\ opacity \in Opacities
    /\ scale \in Scales
    /\ pc = "convert"
    /\ base_image = NoImage /\ base_width = 0 /\ base_height = 0
    /\ new_width = 0 /\ new_height = 0
    /\ watermark = NoImage /\ wm_pasted = NoImage
    /\ pos_x = 0 /\ pos_y = 0
    /\ temp_img = NoImage /\ result = NoImage
    /\ ret = NoTensor /\ outcome = "none"
    /\ PlaceIdle

\* ----- lines 42-51: tensor -> PIL image
array_max(arr, c) ==
    CHOOSE m \in {arr[q][k] : q \in DOMAIN arr, k \in 1..c} :
        \A q \in DOMAIN arr : \A k \in 1..c : arr[q][k] <= m

\* (img_array * 255).astype(np.uint8) when max <= 1.0, else astype(np.uint8).
\* An input n / 256 times 255 is exact in float32; astype truncates.
to_uint8(arr, c) ==
    IF array_max(arr, c) <= Unit
    THEN [q \in DOMAIN arr |-> [k \in 1..c |-> IntOf(arr[q][k] * ByteMax, Unit)]]
    ELSE [q \in DOMAIN arr |-> [k \in 1..c |-> IntOf(arr[q][k], Unit) % (ByteMax + 1)]]

\* Image.fromarray of an (height, width, channels) uint8 array
fromarray(arr, w, h, c) ==
    [mode |-> IF c = 3 THEN "RGB" ELSE "RGBA", width |-> w, height |-> h, px |-> arr]

Convert ==
    /\ pc = "convert"
    /\ base_image' = fromarray(to_uint8(image.data[1], image.channels), image.width, image.height, image.channels)
    /\ pc' = "check_path"
    /\ UNCHANGED <<image, wm_file, opacity, scale, base_width, base_height, new_width, new_height, watermark, wm_pasted, pos_x, pos_y, temp_img, result, ret, outcome, place_vars>>

\* ----- lines 54-57: os.path.exists
CheckPath ==
    /\ pc = "check_path"
    /\ IF wm_file.status = "missing"
       THEN /\ ret' = image
            /\ outcome' = "not_found"
            /\ pc' = "done"
       ELSE /\ pc' = "load"
            /\ UNCHANGED <<ret, outcome>>
    /\ UNCHANGED <<image, wm_file, opacity, scale, base_image, base_width, base_height, new_width, new_height, watermark, wm_pasted, pos_x, pos_y, temp_img, result, place_vars>>

\* ----- lines 60-64: Image.open(...).convert("RGBA"), with its own except
Load ==
    /\ pc = "load"
    /\ IF wm_file.status = "undecodable"
       THEN /\ ret' = image
            /\ outcome' = "load_error"
            /\ pc' = "done"
            /\ UNCHANGED watermark
       ELSE /\ watermark' = [mode |-> "RGBA", width |-> wm_file.width, height |-> wm_file.height, px |-> WmPx(wm_file.width, wm_file.height, 0)]
            /\ pc' = "size"
            /\ UNCHANGED <<ret, outcome>>
    /\ UNCHANGED <<image, wm_file, opacity, scale, base_image, base_width, base_height, new_width, new_height, wm_pasted, pos_x, pos_y, temp_img, result, place_vars>>

\* ----- lines 67-81: the size the watermark is resized to
\* Faulty variant: round() in place of int().
watermark_size_rounded(bw, bh, sc) == RoundHalfEven(Min(bw, bh) * sc[1], sc[2])

\* Faulty variant: the longer side of the base image as the reference.
watermark_size_max(bw, bh, sc) == IntOf((IF bw >= bh THEN bw ELSE bh) * sc[1], sc[2])

\* int(min_dimension * scale)
watermark_size(bw, bh, sc) == IntOf(Min(bw, bh) * sc[1], sc[2])

\* watermark_ratio = width / height; int(size / ratio) is int(size * height / width)
\* and int(size * ratio) is int(size * width / height)
new_size(wm_w, wm_h, size) ==
    IF wm_w > wm_h
    THEN <<size, IntOf(size * wm_h, wm_w)>>
    ELSE <<IntOf(size * wm_w, wm_h), size>>

ComputeSize ==
    /\ pc = "size"
    /\ base_width' = base_image.width
    /\ base_height' = base_image.height
    /\ LET target == new_size(watermark.width, watermark.height, watermark_size(base_image.width, base_image.height, scale))
       IN  /\ new_width' = target[1]
           /\ new_height' = target[2]
    /\ pc' = "resize"
    /\ UNCHANGED <<image, wm_file, opacity, scale, base_image, watermark, wm_pasted, pos_x, pos_y, temp_img, result, ret, outcome, place_vars>>

\* ----- line 83: watermark.resize((new_width, new_height), LANCZOS)
\* Pillow raises ValueError("height and width must be > 0") for an empty size;
\* otherwise the resampled pixels are whatever the filter produces.
Resize ==
    /\ pc = "resize"
    /\ IF new_width < 1 \/ new_height < 1
       THEN /\ pc' = "except"
            /\ UNCHANGED watermark
       ELSE /\ \E seed \in WmSeeds :
                   watermark' = [mode |-> "RGBA", width |-> new_width, height |-> new_height, px |-> WmPx(new_width, new_height, seed)]
            /\ pc' = "position"
    /\ UNCHANGED <<image, wm_file, opacity, scale, base_image, base_width, base_height, new_width, new_height, wm_pasted, pos_x, pos_y, temp_img, result, ret, outcome, place_vars>>

\* ----- lines 86-97: _calculate_position, then _ensure_watermark_fits on its
\* result; position, margins and offsets are arguments read only here
Place ==
    /\ pc = "position"
    /\ \E position \in AnchorArgs, margin_x \in ApplyMargins, margin_y \in ApplyMargins, offset_x \in ApplyOffsets, offset_y \in ApplyOffsets :
          LET pos == calculate_position(base_width, base_height, watermark.width, watermark.height, position, margin_x, margin_y, offset_x, offset_y)
              fit == ensure_watermark_fits(base_width, base_height, watermark.width, watermark.height, pos[1], pos[2])
          IN  /\ pos_x' = fit[1]
              /\ pos_y' = fit[2]
    /\ pc' = "to_rgba"
    /\ UNCHANGED <<image, wm_file, opacity, scale, base_image, base_width, base_height, new_width, new_height, watermark, wm_pasted, temp_img, result, ret, outcome, place_vars>>

\* ----- lines 100-101: base_image.convert('RGBA') adds an opaque alpha
convert_rgba(img) ==
    IF img.mode # "RGBA"
    THEN [img EXCEPT !.mode = "RGBA", !.px = [q \in DOMAIN img.px |-> <<img.px[q][1], img.px[q][2], img.px[q][3], ByteMax>>]]
    ELSE img

ToRGBA ==
    /\ pc = "to_rgba"
    /\ base_image' = convert_rgba(base_image)
    /\ pc' = "opacity"
    /\ UNCHANGED <<image, wm_file, opacity, scale, base_width, base_height, new_width, new_height, watermark, wm_pasted, pos_x, pos_y, temp_img, result, ret, outcome, place_vars>>

\* ----- lines 104-110
\* Faulty variant: opacity taken as transparency.
point_alpha_inverted(p, op) == IntOf(p * (op[2] - op[1]), op[2])

\* lambda p: int(p * opacity)
point_alpha(p, op) == IntOf(p * op[1], op[2])

\* copy(), split()[-1].point(...), putalpha(alpha)
with_opacity(wm, op) ==
    [wm EXCEPT !.px = [q \in DOMAIN wm.px |-> <<wm.px[q][1], wm.px[q][2], wm.px[q][3], point_alpha(wm.px[q][4], op)>>]]

ApplyOpacity ==
    /\ pc = "opacity"
    /\ wm_pasted' = IF opacity[1] < opacity[2] THEN with_opacity(watermark, opacity) ELSE watermark
    /\ pc' = "paste"
    /\ UNCHANGED <<image, wm_file, opacity, scale, base_image, base_width, base_height, new_width, new_height, watermark, pos_x, pos_y, temp_img, result, ret, outcome, place_vars>>

\* ----- lines 113-114: Image.new and paste with the watermark as its own mask
\* Pillow: BLEND(mask, in1, in2) = DIV255(in1 * (255 - mask) + in2 * mask) on
\* every band; pixels outside the canvas are cropped.
DIV255(a) == LET tmp == a + 128 IN ((tmp \div 256) + tmp) \div 256

BLEND(mask, in1, in2) == DIV255(in1 * (ByteMax - mask) + in2 * mask)

new_canvas(w, h) ==
    [mode |-> "RGBA", width |-> w, height |-> h, px |-> [q \in Coords(w, h) |-> <<0, 0, 0, 0>>]]

paste(canvas, im, box) ==
    [canvas EXCEPT !.px =
        [q \in DOMAIN canvas.px |->
            LET src == <<q[1] - box[1], q[2] - box[2]>>
            IN  IF src \in DOMAIN im.px
                THEN [i \in 1..4 |-> BLEND(im.px[src][4], canvas.px[q][i], im.px[src][i])]
                ELSE canvas.px[q]]]

Paste ==
    /\ pc = "paste"
    /\ temp_img' = paste(new_canvas(base_image.width, base_image.height), wm_pasted, <<pos_x, pos_y>>)
    /\ pc' = "composite"
    /\ UNCHANGED <<image, wm_file, opacity, scale, base_image, base_width, base_height, new_width, new_height, watermark, wm_pasted, pos_x, pos_y, result, ret, outcome, place_vars>>

\* ----- lines 117-121: Image.alpha_composite, then back to RGB for 3 channels
SHIFTFORDIV255(a) == ((a \div 256) + a) \div 256

\* Pillow's AlphaComposite.c, 7 bits of precision
composite_pixel(dst, src) ==
    IF src[4] = 0 THEN dst
    ELSE LET blend == dst[4] * (ByteMax - src[4])
             outa255 == src[4] * ByteMax + blend
             coef1 == (src[4] * ByteMax * ByteMax * 128) \div outa255
             coef2 == ByteMax * 128 - coef1
             band(i) == SHIFTFORDIV255(src[i] * coef1 + dst[i] * coef2 + 128 * 128) \div 128
         IN  <<band(1), band(2), band(3), SHIFTFORDIV255(outa255 + 128)>>

alpha_composite(dst, src) ==
    [dst EXCEPT !.px = [q \in DOMAIN dst.px |-> composite_pixel(dst.px[q], src.px[q])]]

convert_rgb(img) ==
    [img EXCEPT !.mode = "RGB", !.px = [q \in DOMAIN img.px |-> <<img.px[q][1], img.px[q][2], img.px[q][3]>>]]

Composite ==
    /\ pc = "composite"
    /\ result' = IF image.channels = 3
                 THEN convert_rgb(alpha_composite(base_image, temp_img))
                 ELSE alpha_composite(base_image, temp_img)
    /\ pc' = "encode"
    /\ UNCHANGED <<image, wm_file, opacity, scale, base_image, base_width, base_height, new_width, new_height, watermark, wm_pasted, pos_x, pos_y, temp_img, ret, outcome, place_vars>>

\* ----- lines 124-127: np.array(result) / 255.0, unsqueeze(0)
\* k / 255 is kept exactly, as k * 256 units; its float32 is within 2^-24 of it.
to_tensor(img) ==
    LET c == IF img.mode = "RGB" THEN 3 ELSE 4
    IN  [batch |-> 1, height |-> img.height, width |-> img.width, channels |-> c,
         data |-> [i \in 1..1 |-> [q \in DOMAIN img.px |-> [k \in 1..c |-> img.px[q][k] * (ByteMax + 1)]]]]

Encode ==
    /\ pc = "encode"
    /\ ret' = to_tensor(result)
    /\ outcome' = "ok"
    /\ pc' = "done"
    /\ UNCHANGED <<image, wm_file, opacity, scale, base_image, base_width, base_height, new_width, new_height, watermark, wm_pasted, pos_x, pos_y, temp_img, result, place_vars>>

\* ----- lines 40-128: a numpy or Pillow call of the try body raises
TryBody ==
    {"convert", "check_path", "load", "size", "resize", "position", "to_rgba", "opacity", "paste", "composite", "encode"}

LibraryFailure ==
    /\ pc \in TryBody
    /\ pc' = "except"
    /\ UNCHANGED <<image, wm_file, opacity, scale, base_image, base_width, base_height, new_width, new_height, watermark, wm_pasted, pos_x, pos_y, temp_img, result, ret, outcome, place_vars>>

\* ----- lines 129-131: except Exception: return (image,)
\* Faulty variant: the handler returns what had been composited so far.
exception_result_partial(img, partial) == to_tensor(partial)

exception_result(img, partial) == img

HandleException ==
    /\ pc = "except"
    /\ ret' = exception_result(image, result)
    /\ outcome' = "exception"
    /\ pc' = "done"
    /\ UNCHANGED <<image, wm_file, opacity, scale, base_image, base_width, base_height, new_width, new_height, watermark, wm_pasted, pos_x, pos_y, temp_img, result, place_vars>>

Next ==
    \/ Convert
    \/ CheckPath
    \/ Load
    \/ ComputeSize
    \/ Resize
    \/ Place
    \/ ToRGBA
    \/ ApplyOpacity
    \/ Paste
    \/ Composite
    \/ Encode
    \/ LibraryFailure
    \/ HandleException

Spec == Init /\ [][Next]_vars

\* =====================================================================
\* Properties of the two helpers, checked under SpecPlace
\* =====================================================================
ClampReturned == cstep \in {"fitted", "refitted"}
WatermarkFits == call.wm[1] <= call.base[1] /\ call.wm[2] <= call.base[2]

\* C1: whenever the watermark is no larger than the base image on either
\* axis, the position _ensure_watermark_fits returns keeps the watermark's
\* box inside the base image: 0 <= x <= W - w and 0 <= y <= H - h.
C1_ClampKeepsBoxInside ==
    (ClampReturned /\ WatermarkFits) =>
        /\ 0 <= fitted[1] /\ fitted[1] <= call.base[1] - call.wm[1]
        /\ 0 <= fitted[2] /\ fitted[2] <= call.base[2] - call.wm[2]

\* A fitting watermark, one of the nine anchors, and both axes adjusted: x
\* pulled back from the right edge, y pushed up to 0.
C1_Witness ==
    /\ cstep = "fitted" /\ WatermarkFits /\ call.position \in Anchors
    /\ resolved[1] + call.wm[1] > call.base[1]
    /\ resolved[2] < 0
    /\ fitted = <<call.base[1] - call.wm[1], 0>>
    /\ call.wm[1] < call.base[1]

LeftAnchors == {"top_left", "center_left", "bottom_left"}
CenterColumn == {"top_center", "center", "bottom_center"}
TopAnchors == {"top_left", "top_center", "top_right"}
CenterRow == {"center_left", "center", "center_right"}

TableX(a, W, w, mx) ==
    IF a \in LeftAnchors THEN mx
    ELSE IF a \in CenterColumn THEN (W - w) \div 2
    ELSE W - w - mx

TableY(a, H, h, my) ==
    IF a \in TopAnchors THEN my
    ELSE IF a \in CenterRow THEN (H - h) \div 2
    ELSE H - h - my

\* C3: _calculate_position returns (base_x + ox, base_y + oy) with base_x and
\* base_y from the anchor table (left / centre / right column, top / centre /
\* bottom row), any other anchor name giving the bottom_right entry, and with
\* no clamping; 1000 x 500, 200 x 100, bottom_right, margins 20 gives (780, 380).
C3_ResolverTable ==
    (cstep # "args") =>
        /\ resolved = <<TableX(call.position, call.base[1], call.wm[1], call.margin[1]) + call.offset[1],
                        TableY(call.position, call.base[2], call.wm[2], call.margin[2]) + call.offset[2]>>
        /\ (/\ call.base = <<1000, 500>> /\ call.wm = <<200, 100>>
            /\ call.position = "bottom_right"
            /\ call.margin = <<DefaultMargin, DefaultMargin>> /\ call.offset = <<0, 0>>)
           => resolved = <<780, 380>>

\* An unknown anchor name resolved outside the base image, left unclamped.
C3_Witness ==
    /\ cstep = "resolved"
    /\ call.position = UnknownAnchor
    /\ call.margin = <<DefaultMargin, 0>>
    /\ resolved[1] < 0
    /\ resolved = <<call.base[1] - call.wm[1] - DefaultMargin + call.offset[1],
                    call.base[2] - call.wm[2] + call.offset[2]>>

\* C5 as stated: for any sizes, clamping the clamped position changes nothing.
C5_IdempotentForAnySize ==
    (cstep = "refitted") => refitted = fitted

\* C5 amended: clamping the clamped position changes nothing exactly when
\* the watermark is no larger than the base image on both axes; on an axis
\* where it is larger the second clamp always moves the position again.
C5_IdempotentWhenFits ==
    (cstep = "refitted") =>
        /\ (refitted[1] = fitted[1]) <=> (call.wm[1] <= call.base[1])
        /\ (refitted[2] = fitted[2]) <=> (call.wm[2] <= call.base[2])

\* A fitting watermark whose position the first clamp changed on both axes.
C5_Witness ==
    /\ cstep = "refitted" /\ WatermarkFits
    /\ fitted[1] # resolved[1] /\ fitted[2] # resolved[2]
    /\ refitted = fitted

OversizedScenario ==
    /\ call.base = <<100, 100>> /\ call.wm = <<150, 80>>
    /\ call.position \in Anchors
    /\ call.margin = <<DefaultMargin, DefaultMargin>> /\ call.offset = <<0, 0>>

\* C8 as stated: base 100 x 100, watermark 150 x 80, default margins, no
\* offsets: for each of the nine anchors the clamped x is W - w = -50.
C8_NegativeXForEveryAnchor ==
    (ClampReturned /\ OversizedScenario) => fitted[1] = -50

\* C8 amended: in that scenario the clamped x is -50 for the three *_left
\* anchors and 0 for the other six (their resolved x is already negative);
\* y is clamped on its own: 20 in the top row, 10 in the centre row, 0 in
\* the bottom row.
C8_OversizedScenario ==
    (ClampReturned /\ OversizedScenario) =>
        /\ fitted[1] = IF call.position \in LeftAnchors THEN -50 ELSE 0
        /\ fitted[2] = IF call.position \in TopAnchors THEN 20
                       ELSE IF call.position \in CenterRow THEN 10 ELSE 0

\* The scenario at bottom_left: x overflows to -50, y stays at 0.
C8_Witness ==
    /\ cstep = "fitted" /\ OversizedScenario
    /\ call.position = "bottom_left"
    /\ resolved = <<DefaultMargin, 0>>
    /\ fitted = <<-50, 0>>

\* =====================================================================
\* Properties of apply_watermark, checked under Spec
\* =====================================================================
Returned == pc = "done"
FailSoft == outcome \in {"not_found", "load_error", "exception"}

\* C2: whichever step fails (missing path, undecodable file, an exception
\* anywhere in the try body), the call returns, and returns the input
\* tensor itself, unmodified.
C2_FailSoftReturnsInput ==
    /\ (pc = "except") => ENABLED HandleException
    /\ Returned => (outcome = "ok" \/ FailSoft)
    /\ (Returned /\ FailSoft) => ret = image

\* The resize of an empty size raised, and the input came back.
C2_Witness ==
    /\ Returned /\ outcome = "exception"
    /\ wm_file.status = "ok" /\ new_height = 0 /\ new_width = 0
    /\ watermark.width = wm_file.width
    /\ ret = image

\* C4 as stated: on the success path and on every fail-soft path the
\* returned buffer has batch size 1 and the channel count of the input.
C4_ReturnShape ==
    Returned => (ret.batch = 1 /\ ret.channels = image.channels)

NaturalWidth == watermark.width
NaturalHeight == watermark.height
Reference == Min(base_image.width, base_image.height)

\* C6 as stated: the long edge is round(min(W, H) * scale) and the short
\* edge is round(long / (nw / nh)) or round(long * (nw / nh)).
C6_RoundedTarget ==
    (pc = "resize") =>
        LET long == RoundHalfEven(Reference * scale[1], scale[2])
        IN  IF NaturalWidth >= NaturalHeight
            THEN new_width = long /\ new_height = RoundHalfEven(long * NaturalHeight, NaturalWidth)
            ELSE new_height = long /\ new_width = RoundHalfEven(long * NaturalWidth, NaturalHeight)

\* C6 amended: the long edge is min(W, H) * scale truncated to an integer,
\* and the short edge is long / (nw / nh), or long * (nw / nh), truncated.
C6_TruncatedTarget ==
    (pc = "resize") =>
        LET long == (Reference * scale[1]) \div scale[2]
        IN  IF NaturalWidth >= NaturalHeight
            THEN new_width = long /\ new_height = (long * NaturalHeight) \div NaturalWidth
            ELSE new_height = long /\ new_width = (long * NaturalWidth) \div NaturalHeight

\* A landscape watermark where both the long and the short edge lose a
\* fraction, and a non-empty size results.
C6_Witness ==
    /\ pc = "resize"
    /\ NaturalWidth > NaturalHeight
    /\ (Reference * scale[1]) % scale[2] # 0
    /\ (new_width * NaturalHeight) % NaturalWidth # 0
    /\ new_height >= 1

\* C7 as stated: the size passed to resize is at least 1 x 1.
C7_AtLeastOnePixel ==
    (pc = "resize") => (new_width >= 1 /\ new_height >= 1)

AlphaOf(px) == px[4]
Abs(n) == IF n < 0 THEN -n ELSE n

\* C9: the opacity step maps each watermark alpha a to a * opacity truncated
\* when opacity < 1 and leaves it alone when opacity = 1, never touching RGB;
\* with opacity 0 every alpha is 0 and the returned image is within 1/255 of
\* the first input image on every channel of every pixel.
C9_Opacity ==
    /\ (pc \in {"paste", "composite", "encode"}) =>
          /\ DOMAIN wm_pasted.px = DOMAIN watermark.px
          /\ \A q \in DOMAIN watermark.px :
                /\ SubSeq(wm_pasted.px[q], 1, 3) = SubSeq(watermark.px[q], 1, 3)
                /\ AlphaOf(wm_pasted.px[q]) =
                      IF opacity[1] < opacity[2]
                      THEN (AlphaOf(watermark.px[q]) * opacity[1]) \div opacity[2]
                      ELSE AlphaOf(watermark.px[q])
                /\ (opacity[1] = 0) => AlphaOf(wm_pasted.px[q]) = 0
    /\ (Returned /\ opacity[1] = 0) =>
          /\ ret.height = image.height /\ ret.width = image.width
          /\ ret.channels = image.channels
          /\ \A q \in Coords(image.width, image.height) : \A k \in 1..image.channels :
                Abs(ret.data[1][q][k] - image.data[1][q][k]) <= ByteMax + 1

\* Opacity 0, an opaque watermark pixel among those pasted, and the call
\* returned through the success path.
C9_Witness ==
    /\ Returned /\ outcome = "ok" /\ opacity[1] = 0
    /\ \E q \in DOMAIN watermark.px : AlphaOf(watermark.px[q]) = ByteMax
    /\ \A q \in DOMAIN wm_pasted.px : AlphaOf(wm_pasted.px[q]) = 0
    /\ ret # image

\* C10: the resized watermark is never larger than the shorter side of the
\* base image, so the position the paste step gets satisfies
\* 0 <= pos_x <= W - w and 0 <= pos_y <= H - h.
C10_PasteInsideBase ==
    /\ (pc \in {"position", "to_rgba", "opacity", "paste"}) =>
          /\ watermark.width <= Min(base_width, base_height)
          /\ watermark.height <= Min(base_width, base_height)
    /\ (pc = "paste") =>
          /\ 0 <= pos_x /\ pos_x <= base_image.width - wm_pasted.width
          /\ 0 <= pos_y /\ pos_y <= base_image.height - wm_pasted.height

\* The paste step reached with the watermark strictly inside on x and
\* flush with the bottom edge on y.
C10_Witness ==
    /\ pc = "paste"
    /\ 0 < pos_x /\ pos_x < base_image.width - wm_pasted.width
    /\ pos_y = base_image.height - wm_pasted.height /\ pos_y > 0

====
